---- MODULE Spec2Model ----
(***************************************************************************)
(* Model of src/xiaomusic/lx_plugin_runner.js: the plugin host that loads  *)
(* one module, frames line-delimited requests read from stdin, dispatches  *)
(* them to the module's 'request' handler and writes one JSON document per *)
(* line to stdout; with the event registry (on, emit, send), the log       *)
(* functions and the request function it gives to the module.             *)
(***************************************************************************)
EXTENDS Integers, Sequences, FiniteSets, TLC

(***************************************************************************)
(* Bounds of the model.                                                    *)
(***************************************************************************)
MaxLines == 2       \* lines the peer writes to the runner's stdin (Spec)
RequestLines == 1   \* lines the peer writes to the runner's stdin (SpecRequest)
MaxHandlers == 2    \* on('request', ...) calls made by the module
MaxSends == 1       \* send(...) calls made by the module
MaxEmits == 2       \* emit(...) calls made by the module and its callbacks
MaxLogs == 2        \* calls of the log functions (SpecLog)
MaxRequests == 2    \* calls of request made by the module (SpecFetch)
MaxTrips == 2       \* calls of search / getMediaSource of the round-trip variant
MaxTripEmits == 2   \* emit(...) calls made by the module of the round-trip variant

(***************************************************************************)
(* JavaScript values.  A value is a record of its type and its content; a  *)
(* string's content is the sequence of its pieces, so that concatenation   *)
(* is \o.                                                                  *)
(***************************************************************************)
Val(t, v) == [t |-> t, v |-> v]
Undefined == Val("undefined", <<>>)
Null == Val("null", <<>>)
Num(s) == Val("number", <<s>>)
Str(s) == Val("string", s)
Obj(s) == Val("object", <<s>>)
Arr(s) == Val("array", <<s>>)
Err(msg) == Val("Error", msg)
TypeErr(msg) == Val("TypeError", msg)
ErrorClasses == {"Error", "TypeError", "ReferenceError"}

IsNullish(x) == x.t \in {"null", "undefined"}

\* `${x}` in a template literal
TemplateString(x) ==
  CASE x.t = "undefined" -> <<"undefined">>
    [] x.t = "null" -> <<"null">>
    [] OTHER -> x.v

\* x.prop where x is null or undefined throws this TypeError
CannotRead(x, prop) ==
  TypeErr(<<"Cannot read properties of ">> \o TemplateString(x) \o <<" (reading '", prop, "')">>)

\* e.message: the message of an Error object, undefined for any other
\* non-nullish value (the caller handles the nullish case, which throws)
MessageOf(e) == IF e.t \in ErrorClasses THEN Str(e.v) ELSE Undefined

\* JSON.stringify of an object literal: members whose value is undefined are
\* dropped from the document, every other member is kept with its value
JSONstringify(o) == [k \in {m \in DOMAIN o : o[m].t # "undefined"} |-> o[k]]

(***************************************************************************)
(* The inbound byte stream.  The text of a line is a sequence of tokens;   *)
(* a request document is the two tokens  {"id":..,"method":..,"params":..  *)
(* and  }  so that a chunk boundary can fall inside it.                    *)
(***************************************************************************)
SixMethods == {"search", "getMediaSource", "getLyric", "getAlbum", "getArtist", "getRecommend"}

Message(id, method, params) == [id |-> id, method |-> method, params |-> params]
NoMessage == Message(Undefined, Undefined, Undefined)

\* The request documents the peer sends: every id with one method, every
\* method with one id, and a request without params.
Ids == {Num("7"), Str(<<"a">>), Null, Undefined}
Methods == {Str(<<m>>) : m \in SixMethods} \cup {Str(<<"bogus">>)}
ParamsValues == {Obj("params"), Undefined}
Messages ==
  {Message(i, Str(<<"search">>), Obj("params")) : i \in Ids}
    \cup {Message(Num("7"), m, Obj("params")) : m \in Methods}
    \cup {Message(Str(<<"a">>), Str(<<"getLyric">>), p) : p \in ParamsValues}

Tok(k, m) == [k |-> k, m |-> m]
NL == Tok("nl", NoMessage)
Sp == Tok("sp", NoMessage)
Junk == Tok("junk", NoMessage)
JNull == Tok("null", NoMessage)
JNum == Tok("num", NoMessage)
Close == Tok("close", NoMessage)
Open(m) == Tok("open", m)

\* every text of a line the peer writes in SpecRequest
LineTexts ==
  {<<Open(m), Close>> : m \in Messages} \cup {<<Junk>>, <<JNull>>, <<JNum>>, <<>>, <<Sp>>}

\* the texts of the lines the peer writes in Spec: a request, a line that is
\* not JSON and an empty line
StreamTexts ==
  {<<Open(Message(Num("7"), Str(<<"search">>), Obj("params"))), Close>>, <<Junk>>, <<>>}

\* params objects with members: undefined stands for a member the document
\* does not have
ParamsOf(f) ==
  [t |-> "object", v |-> <<"params">>,
   members |-> [k \in {j \in DOMAIN f : f[j].t # "undefined"} |-> f[k]]]
OptionsWith(quality) ==
  [t |-> "object", v |-> <<"options">>,
   members |-> [k \in {j \in {"quality"} : quality.t # "undefined"} |-> quality]]

Pages == {Undefined, [t |-> "number", v |-> <<"2">>], Null}
Limits == {Undefined, [t |-> "number", v |-> <<"10">>]}
Sources == {Undefined, [t |-> "string", v |-> <<"kw">>]}
Items == {Undefined, [t |-> "object", v |-> <<"song">>]}
OptionsValues ==
  {Undefined, Null, OptionsWith(Undefined),
   OptionsWith([t |-> "string", v |-> <<"320k">>]),
   OptionsWith([t |-> "string", v |-> <<>>])}

\* the requests of SpecDescriptor: each operation with the members it reads
\* present or not
DescriptorParams ==
  [search |->
     {ParamsOf([keyword |-> [t |-> "string", v |-> <<"word">>], page |-> p, limit |-> l, source |-> s]) :
        p \in Pages, l \in Limits, s \in Sources},
   getMediaSource |->
     {ParamsOf([musicItem |-> [t |-> "object", v |-> <<"song">>], source |-> s, options |-> o]) :
        s \in Sources, o \in OptionsValues},
   getLyric |->
     {ParamsOf([musicItem |-> i, source |-> s]) : i \in Items, s \in Sources},
   getAlbum |->
     {ParamsOf([albumId |-> [t |-> "string", v |-> <<"al">>], page |-> p, limit |-> l, source |-> s]) :
        p \in Pages, l \in Limits, s \in Sources},
   getArtist |->
     {ParamsOf([artistId |-> [t |-> "string", v |-> <<"ar">>], page |-> p, limit |-> l, source |-> s]) :
        p \in Pages, l \in Limits, s \in Sources},
   getRecommend |->
     {ParamsOf([musicItem |-> [t |-> "object", v |-> <<"song">>], page |-> p, limit |-> l, source |-> s]) :
        p \in Pages, l \in Limits, s \in Sources}]

DescriptorTexts ==
  UNION {{<<Open(Message([t |-> "number", v |-> <<"7">>], [t |-> "string", v |-> <<mth>>], p)), Close>> :
            p \in DescriptorParams[mth]} : mth \in SixMethods}

\* the texts of the lines the peer writes in SpecOperations: a request for
\* each of the six operations
OperationTexts ==
  {<<Open(Message(Num("7"), Str(<<m>>), Obj("params"))), Close>> : m \in SixMethods}

(***************************************************************************)
(* The framer's view of one line (lines 472-479).                          *)
(***************************************************************************)
\* line.trim() === ''
IsBlank(line) == \A i \in 1..Len(line) : line[i] = Sp

StripSp(line) == SelectSeq(line, LAMBDA t : t # Sp)

\* JSON.parse(line): the parsed value, or the SyntaxError it throws
JSONparse(line) ==
  LET s == StripSp(line) IN
  CASE Len(s) = 2 /\ s[1].k = "open" /\ s[2] = Close ->
         [threw |-> FALSE, isObject |-> TRUE, isNull |-> FALSE, message |-> s[1].m]
    [] s = <<JNull>> ->
         [threw |-> FALSE, isObject |-> FALSE, isNull |-> TRUE, message |-> NoMessage]
    [] s = <<JNum>> ->
         [threw |-> FALSE, isObject |-> FALSE, isNull |-> FALSE, message |-> NoMessage]
    [] OTHER ->
         [threw |-> TRUE, isObject |-> FALSE, isNull |-> FALSE, message |-> NoMessage]

\* const message = JSON.parse(line); const { id, method, params } = message;
\* destructuring null throws, destructuring a number yields three undefined
ParseAndDestructure(line) ==
  LET p == JSONparse(line) IN
  IF p.threw \/ p.isNull
    THEN [threw |-> TRUE, message |-> NoMessage]
    ELSE [threw |-> FALSE, message |-> p.message]

(***************************************************************************)
(* handleExternalRequest (lines 186-230): what the promise it returns      *)
(* settles to.  st is "resolved", "rejected" or "never" (the promise is    *)
(* left pending for ever); unhandled tells that a rejection with no        *)
(* handler was produced on the way.                                        *)
(***************************************************************************)
Settled(st, val, unhandled) == [st |-> st, val |-> val, unhandled |-> unhandled]

\* variant of NoHandlerError: the rejection carries another message
NoHandlerErrorOtherMessage == Err(<<"LX API not available">>)

\* lines 193-197
NoHandlerError == Err(<<"No request handler registered">>)

\* lines 225-228: the handler threw r synchronously
SyncCatch(r) ==
  IF IsNullish(r)
    THEN Settled("rejected", CannotRead(r, "message"), FALSE)
    ELSE Settled("rejected", r, FALSE)

\* lines 219-224: the handler returned v, not a thenable
SyncResult(v) == Settled("resolved", v, FALSE)

\* lines 214-218: .catch(error => { logError(... error.message); reject(error) })
CatchCallback(r) ==
  IF IsNullish(r)
    THEN Settled("never", CannotRead(r, "message"), TRUE)
    ELSE Settled("rejected", r, FALSE)

\* lines 208-213: .then(result => { ... JSON.stringify(result).substring(0, 300);
\* resolve(result) }); a throw in it is passed to the .catch callback
ThenCallback(v) ==
  IF v.t = "undefined"
    THEN CatchCallback(CannotRead(Undefined, "substring"))
    ELSE Settled("resolved", v, FALSE)

(***************************************************************************)
(* The response of the data callback (lines 484-558).                      *)
(***************************************************************************)
Response(id, result, error) == [id |-> id, result |-> result, error |-> error]

\* variant of ResponseOf: the failure branch answers with id null
ResponseOfNullIdOnFailure(id, outcome) ==
  IF outcome.st = "resolved"
    THEN Response(id, outcome.val, Null)
    ELSE Response(Null, Undefined, MessageOf(outcome.val))

\* let result; let error = null; try { result = await ... } catch (e) { error = e.message }
ResponseOf(id, outcome) ==
  IF outcome.st = "resolved"
    THEN Response(id, outcome.val, Null)
    ELSE Response(id, Undefined, MessageOf(outcome.val))

\* lines 572-576
initResponse == Response(Null, Obj("initialized: true"), Null)

\* lines 582-586 and 593-597
LoadErrorResponse(error) == Response(Null, Null, error)

\* send, lines 176-178
EventDocument(event, data) == [event |-> event, data |-> data]

\* variant of Entry: the document is written without the newline
EntryWithoutNewline(site, msg, o) ==
  [site |-> site, msg |-> msg, doc |-> JSONstringify(o), end |-> <<>>]

\* one call process.stdout.write(JSON.stringify(o) + '\n'): the document and
\* what follows it in the same write; site and msg record which statement
\* wrote it and for which message number
Entry(site, msg, o) ==
  [site |-> site, msg |-> msg, doc |-> JSONstringify(o), end |-> <<NL>>]

(***************************************************************************)
(* The method switch (lines 488-541) and the six operations of              *)
(* LXPluginRunner (lines 302-437) up to the call of handleExternalRequest. *)
(***************************************************************************)
\* the first member read from params when the call's arguments are evaluated
FirstParam ==
  [m \in SixMethods |->
     CASE m = "search" -> "keyword"
       [] m = "getAlbum" -> "albumId"
       [] m = "getArtist" -> "artistId"
       [] OTHER -> "musicItem"]

\* the action each operation passes to handleExternalRequest
ActionOf ==
  [m \in SixMethods |->
     CASE m = "search" -> "search"
       [] m = "getMediaSource" -> "musicUrl"
       [] m = "getLyric" -> "lyric"
       [] m = "getAlbum" -> "album"
       [] m = "getArtist" -> "artist"
       [] m = "getRecommend" -> "recommend"]

IsOperation(method) == method.t = "string" /\ Len(method.v) = 1 /\ method.v[1] \in SixMethods

\* o.k for a value that is not nullish: the member, or undefined
Member(o, k) ==
  IF "members" \in DOMAIN o /\ k \in DOMAIN o.members THEN o.members[k] ELSE Undefined

\* a default parameter (page = 1): used when the argument is undefined only
Default(x, d) == IF x.t = "undefined" THEN d ELSE x

\* x || d
Falsy(x) ==
  \/ x.t \in {"undefined", "null"}
  \/ x.t = "string" /\ x.v \in {<<>>, <<"">>}
  \/ x.t = "number" /\ x.v = <<"0">>
OrElse(x, d) == IF Falsy(x) THEN d ELSE x

\* options = {}
EmptyObject == [t |-> "object", v |-> <<"options">>, members |-> <<>>]
OptionsOf(params) == Default(Member(params, "options"), EmptyObject)

\* the third argument of handleExternalRequest in each operation
Info(method, params) ==
  LET page == Default(Member(params, "page"), Num("1"))
      limit == Default(Member(params, "limit"), Num("30"))
  IN CASE method = "search" ->
            [keyword |-> Member(params, "keyword"), page |-> page, limit |-> limit]
       [] method = "getMediaSource" ->
            [musicInfo |-> Member(params, "musicItem"),
             type |-> OrElse(Member(OptionsOf(params), "quality"), Str(<<"128k">>))]
       [] method = "getLyric" ->
            [musicInfo |-> Member(params, "musicItem")]
       [] method = "getAlbum" ->
            [albumId |-> Member(params, "albumId"), page |-> page, limit |-> limit]
       [] method = "getArtist" ->
            [artistId |-> Member(params, "artistId"), page |-> page, limit |-> limit]
       [] method = "getRecommend" ->
            [musicInfo |-> Member(params, "musicItem"), page |-> page, limit |-> limit]

\* handler({ action, source, info }) (line 203)
Descriptor(method, params) ==
  [action |-> ActionOf[method],
   source |-> Default(Member(params, "source"), Str(<<"all">>)),
   info |-> Info(method, params)]

\* options.quality (line 337) is read without the ?. of line 327
ReadsQualityOfNullish(method, params) ==
  method = "getMediaSource" /\ IsNullish(OptionsOf(params))

\* default: throw new Error(`Unknown method: ${method}`)
UnknownMethodError(method) == Err(<<"Unknown method: ">> \o TemplateString(method))

\* What the switch does before any handler is looked up: "call" when the
\* operation reaches handleExternalRequest, else the error thrown.
Switch(message) ==
  IF IsOperation(message.method)
    THEN IF IsNullish(message.params)
           THEN [call |-> FALSE,
                 outcome |-> Settled("rejected",
                                     CannotRead(message.params, FirstParam[message.method.v[1]]),
                                     FALSE)]
           ELSE IF ReadsQualityOfNullish(message.method.v[1], message.params)
                  THEN [call |-> FALSE,
                        outcome |-> Settled("rejected",
                                            CannotRead(OptionsOf(message.params), "quality"),
                                            FALSE)]
                  ELSE [call |-> TRUE, outcome |-> Settled("resolved", Undefined, FALSE)]
    ELSE [call |-> FALSE,
          outcome |-> Settled("rejected", UnknownMethodError(message.method), FALSE)]

(***************************************************************************)
(* What the module's handler can yield and fail with, and what the module  *)
(* passes to send.                                                         *)
(***************************************************************************)
Values == {Arr("2 items"), Obj("url"), Null, Undefined}
Reasons == {Err(<<"boom">>), Str(<<"oops">>), Null, Undefined}
\* the ones used in Spec
StreamValues == {Arr("2 items")}
StreamReasons == {Err(<<"boom">>), Null}
SendEvents == {"inited", "updateAlert"}
SendData == {Obj("sources")}

\* An unhandled promise rejection ends the process in Node 15 and later and
\* only prints a warning before.
UnhandledRejection == {"crashed", "serving"}

(***************************************************************************)
(* State.                                                                  *)
(***************************************************************************)
VARIABLES
  phase,         \* "loading", "serving", "exited" (exit(1)), "crashed"
  events,        \* the event registry: event name -> sequence of callbacks
  pipe,          \* bytes the peer has written that no data event delivered yet
  written,       \* number of lines the peer has written
  buffer,        \* let buffer (line 460)
  messageCount,  \* let messageCount (line 461)
  pc,            \* "loop": a run of the data callback is at line 468; "idle": none is
  runs,          \* runs of the data callback suspended in an await
  stdout,        \* the lines written to stdout
  received,      \* history: the non-blank lines extracted, by message number
  calls,         \* history: the invocations of the module's request handler
  yielded,       \* history: what the handler returned, threw or settled its promise to
  sends,         \* the send calls made by the module, in order: [event, data]
  emitting,      \* the emissions in progress, innermost last: [em, k, len, threw]
  emitted,       \* history: the emissions started: [data, start, done]
  invoked,       \* history: the callbacks emit has called: [em, callback, data]
  appending,     \* number of fs.appendFile calls of logToFile not yet completed
  stderr,        \* the lines written to stderr by console.error
  req,           \* the calls of request: [st, timeout, timer, destroyed]
  delivered,     \* history: the arguments of the callbacks of request
  registry,      \* round-trip variant: events, operation event -> sequence of listeners
  trips,         \* round-trip variant: the promises of search / getMediaSource, by call
  tripEmits,     \* round-trip variant, history: the emit calls: [event, data, calls]
  posted         \* round-trip variant: the documents send wrote to stdout

mainVars == <<phase, events, pipe, written, buffer, messageCount, pc, runs, stdout,
              received, calls, yielded, sends>>
emitVars == <<emitting, emitted, invoked>>
logVars == <<appending, stderr>>
requestVars == <<req, delivered>>
tripVars == <<registry, trips, tripEmits, posted>>
sideVars == <<emitting, emitted, invoked, appending, stderr, req, delivered,
              registry, trips, tripEmits, posted>>

vars == <<phase, events, pipe, written, buffer, messageCount, pc, runs, stdout,
          received, calls, yielded, sends,
          emitting, emitted, invoked, appending, stderr, req, delivered,
          registry, trips, tripEmits, posted>>

REQUEST == "request"
EventNames == {REQUEST}
SEARCH == "search"
GET_MEDIA_SOURCE == "musicUrl"
TripEvents == {SEARCH, GET_MEDIA_SOURCE}

Yield(msg, how, val) == [msg |-> msg, how |-> how, val |-> val]
Run(msg, id, st) == [msg |-> msg, id |-> id, st |-> st]

Init ==
  /\ phase = "loading"
  /\ events = [e \in EventNames |-> <<>>]
  /\ pipe = <<>>
  /\ written = 0
  /\ buffer = <<>>
  /\ messageCount = 0
  /\ pc = "idle"
  /\ runs = {}
  /\ stdout = <<>>
  /\ received = <<>>
  /\ calls = <<>>
  /\ yielded = <<>>
  /\ sends = <<>>
  /\ emitting = <<>>
  /\ emitted = <<>>
  /\ invoked = <<>>
  /\ appending = 0
  /\ stderr = <<>>
  /\ req = <<>>
  /\ delivered = <<>>
  /\ registry = [e \in TripEvents |-> <<>>]
  /\ trips = <<>>
  /\ tripEmits = <<>>
  /\ posted = <<>>

(***************************************************************************)
(* The module: its top-level code runs while phase = "loading", its timers *)
(* and handlers later.                                                     *)
(***************************************************************************)
\* on (lines 150-155)
on(event, callback) == [events EXCEPT ![event] = Append(@, callback)]

\* a callback nobody has seen yet; callbacks are numbered
MaxOf(S) == IF S = {} THEN 0 ELSE CHOOSE x \in S : \A y \in S : y <= x
NewCallback ==
  1 + MaxOf({events[REQUEST][i] : i \in 1..Len(events[REQUEST])}
            \cup {invoked[i].callback : i \in 1..Len(invoked)}
            \cup UNION {{emitted[e].start[i] : i \in 1..Len(emitted[e].start)} :
                          e \in 1..Len(emitted)})

\* the module calls on from its top-level code or from a later callback; emit
\* is synchronous, so no such call falls between two callbacks of an emission
PluginOn ==
  /\ phase \in {"loading", "serving"}
  /\ emitting = <<>>
  /\ Len(events[REQUEST]) < MaxHandlers
  /\ events' = on(REQUEST, NewCallback)
  /\ UNCHANGED <<phase, pipe, written, buffer, messageCount, pc, runs, stdout,
                 received, calls, yielded, sends>>
  /\ UNCHANGED sideVars

\* variant of send: every event is written to stdout, as before the filter
\* on the event name was added
sendEveryEvent(event, data) ==
  Append(stdout, Entry("send", 0, EventDocument(Str(<<event>>), data)))

\* send (lines 169-183) in the main thread
send(event, data) ==
  IF event = "inited"
    THEN Append(stdout, Entry("send", 0, EventDocument(Str(<<event>>), data)))
    ELSE stdout

PluginSend ==
  /\ phase \in {"loading", "serving"}
  /\ Len(sends) < MaxSends
  /\ \E event \in SendEvents, data \in SendData :
       /\ stdout' = send(event, data)
       /\ sends' = Append(sends, [event |-> event, data |-> data])
  /\ UNCHANGED <<phase, events, pipe, written, buffer, messageCount, pc, runs,
                 received, calls, yielded>>
  /\ UNCHANGED sideVars

(***************************************************************************)
(* main (lines 452-600).                                                   *)
(***************************************************************************)
\* variant of LoadedWrites: the success branch writes nothing
LoadedWritesNothing == <<>>

\* what the success branch writes (lines 572-579)
LoadedWrites == <<Entry("init", 0, initResponse)>>

\* loadPlugin returned true
LoadOk ==
  /\ phase = "loading"
  /\ phase' = "serving"
  /\ stdout' = stdout \o LoadedWrites
  /\ UNCHANGED <<events, pipe, written, buffer, messageCount, pc, runs,
                 received, calls, yielded, sends>>
  /\ UNCHANGED sideVars

\* variant of LoadFailure: the line of a failed load carries no error
LoadFailureWithoutError(r) == LoadErrorResponse(Null)

\* the error of the one line written when the load fails: loadPlugin's catch
\* (lines 288-298) reads error.message, which throws for a nullish error and
\* makes loadPlugin reject (lines 591-599); else it returns false (581-588)
LoadFailure(r) ==
  IF IsNullish(r)
    THEN LoadErrorResponse(MessageOf(CannotRead(r, "message")))
    ELSE LoadErrorResponse(Str(<<"Failed to load plugin">>))

\* reading, compiling or running the module threw r
LoadFail(reasons) ==
  /\ phase = "loading"
  /\ \E r \in reasons :
       stdout' = Append(stdout, Entry("loadfail", 0, LoadFailure(r)))
  /\ phase' = "exited"
  /\ UNCHANGED <<events, pipe, written, buffer, messageCount, pc, runs,
                 received, calls, yielded, sends>>
  /\ UNCHANGED sideVars

(***************************************************************************)
(* The peer and the data events.                                           *)
(***************************************************************************)
PeerWrite(texts, maxLines) ==
  /\ phase \in {"loading", "serving"}
  /\ written < maxLines
  /\ \E text \in texts : pipe' = pipe \o text \o <<NL>>
  /\ written' = written + 1
  /\ UNCHANGED <<phase, events, buffer, messageCount, pc, runs, stdout,
                 received, calls, yielded, sends>>
  /\ UNCHANGED sideVars

\* process.stdin.on('data', async (data) => { buffer += data; ...: a data
\* event is delivered only between two runs of JavaScript code
StdinData ==
  /\ phase = "serving"
  /\ pc = "idle"
  /\ \E n \in 1..Len(pipe) :
       /\ buffer' = buffer \o SubSeq(pipe, 1, n)
       /\ pipe' = SubSeq(pipe, n + 1, Len(pipe))
  /\ pc' = "loop"
  /\ UNCHANGED <<phase, events, written, messageCount, runs, stdout,
                 received, calls, yielded, sends>>
  /\ UNCHANGED sideVars

(***************************************************************************)
(* One turn of the while loop (lines 468-568).                             *)
(***************************************************************************)
HasLine == \E i \in 1..Len(buffer) : buffer[i] = NL
\* buffer.indexOf('\n')
newlineIndex == CHOOSE i \in 1..Len(buffer) : buffer[i] = NL /\ \A j \in 1..(i - 1) : buffer[j] # NL
line == SubSeq(buffer, 1, newlineIndex - 1)
rest == SubSeq(buffer, newlineIndex + 1, Len(buffer))

Running == phase = "serving" /\ pc = "loop"

\* the loop condition is false: the run of the callback ends
LoopExit ==
  /\ Running
  /\ ~HasLine
  /\ pc' = "idle"
  /\ UNCHANGED <<phase, events, pipe, written, buffer, messageCount, runs, stdout,
                 received, calls, yielded, sends>>
  /\ UNCHANGED sideVars

\* if (line.trim() === '') continue;
SkipBlank ==
  /\ Running
  /\ HasLine
  /\ IsBlank(line)
  /\ buffer' = rest
  /\ UNCHANGED <<phase, events, pipe, written, messageCount, pc, runs, stdout,
                 received, calls, yielded, sends>>
  /\ UNCHANGED sideVars

\* a non-blank line is taken from the buffer and counted
LineReady == Running /\ HasLine /\ ~IsBlank(line)

Take(parsed, message) ==
  /\ buffer' = rest
  /\ messageCount' = messageCount + 1
  /\ received' = Append(received, [parsed |-> parsed, id |-> message.id])

\* JSON.parse or the destructuring throws: the outer catch (lines 559-567)
\* reads `message`, which is declared in the try block and not in scope, so
\* the catch throws a ReferenceError, nothing is written, the run ends and its
\* promise is rejected with no handler
ParseFailure ==
  /\ LineReady
  /\ ParseAndDestructure(line).threw
  /\ Take(FALSE, NoMessage)
  /\ pc' = "idle"
  /\ phase' \in UnhandledRejection
  /\ UNCHANGED <<events, pipe, written, runs, stdout, calls, yielded, sends>>
  /\ UNCHANGED sideVars

\* lines 551-558
WriteResponse(msg, id, outcome) ==
  stdout' = Append(stdout, Entry("response", msg, ResponseOf(id, outcome)))

\* the switch throws, or no handler is registered: no handler is invoked
RequestError ==
  LET message == ParseAndDestructure(line).message
      sw == Switch(message) IN
  /\ LineReady
  /\ ~ParseAndDestructure(line).threw
  /\ Take(TRUE, message)
  /\ \/ ~sw.call /\ WriteResponse(messageCount', message.id, sw.outcome)
     \/ /\ sw.call
        /\ events[REQUEST] = <<>>
        /\ WriteResponse(messageCount', message.id, Settled("rejected", NoHandlerError, FALSE))
  /\ UNCHANGED <<phase, events, pipe, written, pc, runs, calls, yielded, sends>>
  /\ UNCHANGED sideVars

\* const handler = requestHandlers[0]; handler({ action, source, info })
\* variant of RegistryAfterRequest: the operation registers a listener of
\* its own for the result, as the event round-trip does
RegistryAfterRequestWithListener(message) == on(REQUEST, NewCallback)

\* the registry after an operation and handleExternalRequest: they only read
\* events[EVENT_NAMES.REQUEST] (line 192)
RegistryAfterRequest(message) == events

Invoke(message) ==
  /\ LineReady
  /\ ~ParseAndDestructure(line).threw
  /\ Switch(message).call
  /\ events[REQUEST] # <<>>
  /\ Take(TRUE, message)
  /\ events' = RegistryAfterRequest(message)
  /\ calls' = Append(calls, [msg |-> messageCount', handler |-> events[REQUEST][1],
                             action |-> Descriptor(message.method.v[1], message.params).action,
                             source |-> Descriptor(message.method.v[1], message.params).source,
                             info |-> Descriptor(message.method.v[1], message.params).info])

\* the handler returns a value that is not a thenable
HandlerReturns(values) ==
  LET message == ParseAndDestructure(line).message IN
  /\ Invoke(message)
  /\ \E v \in values :
       /\ WriteResponse(messageCount', message.id, SyncResult(v))
       /\ yielded' = Append(yielded, Yield(messageCount', "return", v))
  /\ UNCHANGED <<phase, pipe, written, pc, runs, sends>>
  /\ UNCHANGED sideVars

\* the handler throws
HandlerThrows(reasons) ==
  LET message == ParseAndDestructure(line).message IN
  /\ Invoke(message)
  /\ \E r \in reasons :
       /\ WriteResponse(messageCount', message.id, SyncCatch(r))
       /\ yielded' = Append(yielded, Yield(messageCount', "throw", r))
  /\ UNCHANGED <<phase, pipe, written, pc, runs, sends>>
  /\ UNCHANGED sideVars

\* the handler returns a promise: the run is suspended in its await
HandlerDefers ==
  LET message == ParseAndDestructure(line).message IN
  /\ Invoke(message)
  /\ runs' = runs \cup {Run(messageCount', message.id, "pending")}
  /\ pc' = "idle"
  /\ UNCHANGED <<phase, pipe, written, stdout, yielded, sends>>
  /\ UNCHANGED sideVars

\* the promise of handleExternalRequest settled to outcome: the run resumes
\* after its await, writes its response and goes on with the loop; when the
\* promise never settles the run stays suspended for ever
Resume(run, outcome) ==
  IF outcome.st = "never"
    THEN /\ runs' = (runs \ {run}) \cup {Run(run.msg, run.id, "stuck")}
         /\ phase' \in (IF outcome.unhandled THEN UnhandledRejection ELSE {"serving"})
         /\ UNCHANGED <<pc, stdout>>
         /\ UNCHANGED sideVars
    ELSE /\ runs' = runs \ {run}
         /\ WriteResponse(run.msg, run.id, outcome)
         /\ pc' = "loop"
         /\ UNCHANGED phase

\* the handler's promise is fulfilled
Fulfil(values) ==
  /\ phase = "serving"
  /\ pc = "idle"
  /\ \E run \in runs, v \in values :
       /\ run.st = "pending"
       /\ Resume(run, ThenCallback(v))
       /\ yielded' = Append(yielded, Yield(run.msg, "fulfil", v))
  /\ UNCHANGED <<events, pipe, written, buffer, messageCount, received, calls, sends>>
  /\ UNCHANGED sideVars

\* the handler's promise is rejected
Reject(reasons) ==
  /\ phase = "serving"
  /\ pc = "idle"
  /\ \E run \in runs, r \in reasons :
       /\ run.st = "pending"
       /\ Resume(run, CatchCallback(r))
       /\ yielded' = Append(yielded, Yield(run.msg, "reject", r))
  /\ UNCHANGED <<events, pipe, written, buffer, messageCount, received, calls, sends>>
  /\ UNCHANGED sideVars

\* Spec: a stream of up to MaxLines lines, each a request, a line that is not
\* JSON or an empty line, served while the module registers handlers and sends
Next ==
  \/ PluginOn
  \/ PluginSend
  \/ LoadOk
  \/ LoadFail(StreamReasons)
  \/ PeerWrite(StreamTexts, MaxLines)
  \/ StdinData
  \/ LoopExit
  \/ SkipBlank
  \/ ParseFailure
  \/ RequestError
  \/ HandlerReturns(StreamValues)
  \/ HandlerThrows(StreamReasons)
  \/ HandlerDefers
  \/ Fulfil(StreamValues)
  \/ Reject(StreamReasons)

Spec == Init /\ [][Next]_vars

\* SpecRequest: up to RequestLines lines with every text, every id, every
\* value and every reason
NextRequest ==
  \/ PluginOn
  \/ LoadOk
  \/ LoadFail(Reasons)
  \/ PeerWrite(LineTexts, RequestLines)
  \/ StdinData
  \/ LoopExit
  \/ SkipBlank
  \/ ParseFailure
  \/ RequestError
  \/ HandlerReturns(Values)
  \/ HandlerThrows(Reasons)
  \/ HandlerDefers
  \/ Fulfil(Values)
  \/ Reject(Reasons)

SpecRequest == Init /\ [][NextRequest]_vars

\* SpecOperations: a stream of up to MaxLines requests for the six operations
NextOperations ==
  \/ PluginOn
  \/ LoadOk
  \/ LoadFail(StreamReasons)
  \/ PeerWrite(OperationTexts, MaxLines)
  \/ StdinData
  \/ LoopExit
  \/ RequestError
  \/ HandlerReturns(StreamValues)
  \/ HandlerThrows(StreamReasons)
  \/ HandlerDefers
  \/ Fulfil(StreamValues)
  \/ Reject(StreamReasons)

SpecOperations == Init /\ [][NextOperations]_vars

(***************************************************************************)
(* emit (lines 156-166): events[event].forEach(callback => { try {          *)
(* callback(data) } catch (error) { console.error(...) } }) over the array  *)
(* of the registry itself, which the module reaches as lx.events.           *)
(***************************************************************************)
\* what a callback does when emit calls it: the first two leave the registry
\* alone, the others change it or emit again before they return
Behaviours == {"return", "throw"}
MutatingBehaviours == {"on", "removeSelf", "removeFirst", "emit"}
EmitData == {Str(<<"a">>), Str(<<"b">>)}

\* Array.prototype.forEach reads the length once, before the first call
Frame(em, list) == [em |-> em, k |-> 1, len |-> Len(list), threw |-> FALSE]
Emission(data, list) == [data |-> data, start |-> list, done |-> "no"]

\* list.indexOf(c) and list.splice(index, 1)
indexOf(list, c) == CHOOSE i \in 1..Len(list) : list[i] = c /\ \A j \in 1..(i - 1) : list[j] # c
splice(list, index) == SubSeq(list, 1, index - 1) \o SubSeq(list, index + 1, Len(list))

\* variant of CallbackThrew: no try around callback(data), the exception
\* leaves forEach and emit
CallbackThrewUncaught(frame) == [frame EXCEPT !.k = frame.len + 1, !.threw = TRUE]

\* catch (error) { console.error(...) }: forEach goes on with the next index
CallbackThrew(frame) == [frame EXCEPT !.k = @ + 1]

ReplaceTop(stack, frame) == [stack EXCEPT ![Len(stack)] = frame]

\* the module calls emit(REQUEST, data) outside any emission
EmitStart(data) ==
  /\ phase \in {"loading", "serving"}
  /\ emitting = <<>>
  /\ Len(emitted) < MaxEmits
  /\ \E d \in data :
       emitted' = Append(emitted, Emission(d, events[REQUEST]))
  /\ emitting' = <<Frame(Len(emitted) + 1, events[REQUEST])>>
  /\ UNCHANGED <<invoked, logVars, requestVars>>
  /\ UNCHANGED <<mainVars, tripVars>>

\* one index of forEach: the callback at index k of the array as it is now is
\* called if the array still has that index, and does one of the behaviours
EmitStep(behaviours) ==
  /\ emitting # <<>>
  /\ LET top == emitting[Len(emitting)]
         list == events[REQUEST]
         next == [top EXCEPT !.k = @ + 1]
     IN /\ top.k <= top.len
        /\ IF top.k <= Len(list)
             THEN /\ invoked' = Append(invoked, [em |-> top.em, callback |-> list[top.k],
                                                 data |-> emitted[top.em].data])
                  /\ \E b \in behaviours :
                       CASE b = "return" ->
                              /\ emitting' = ReplaceTop(emitting, next)
                              /\ UNCHANGED <<events, emitted, stderr>>
                         [] b = "throw" ->
                              /\ emitting' = ReplaceTop(emitting, CallbackThrew(top))
                              /\ stderr' = Append(stderr, [em |-> top.em, callback |-> list[top.k]])
                              /\ UNCHANGED <<events, emitted>>
                         [] b = "on" ->
                              /\ Len(list) < MaxHandlers
                              /\ events' = on(REQUEST, NewCallback)
                              /\ emitting' = ReplaceTop(emitting, next)
                              /\ UNCHANGED <<emitted, stderr>>
                         [] b = "removeSelf" ->
                              /\ events' = [events EXCEPT ![REQUEST] = splice(list, indexOf(list, list[top.k]))]
                              /\ emitting' = ReplaceTop(emitting, next)
                              /\ UNCHANGED <<emitted, stderr>>
                         [] b = "removeFirst" ->
                              /\ top.k > 1
                              /\ events' = [events EXCEPT ![REQUEST] = splice(list, 1)]
                              /\ emitting' = ReplaceTop(emitting, next)
                              /\ UNCHANGED <<emitted, stderr>>
                         [] b = "emit" ->
                              /\ Len(emitted) < MaxEmits
                              /\ emitted' = Append(emitted, Emission(emitted[top.em].data, list))
                              /\ emitting' = Append(ReplaceTop(emitting, next),
                                                    Frame(Len(emitted) + 1, list))
                              /\ UNCHANGED <<events, stderr>>
             ELSE /\ emitting' = ReplaceTop(emitting, next)
                  /\ UNCHANGED <<events, emitted, invoked, stderr>>
  /\ UNCHANGED <<phase, pipe, written, buffer, messageCount, pc, runs, stdout,
                 received, calls, yielded, sends>>
  /\ UNCHANGED <<appending, requestVars, tripVars>>

\* forEach has passed the length it read: emit returns (or, had the exception
\* of a callback left it, throws)
EmitEnd ==
  /\ emitting # <<>>
  /\ LET top == emitting[Len(emitting)]
     IN /\ top.k > top.len
        /\ emitted' = [emitted EXCEPT ![top.em].done = IF top.threw THEN "threw" ELSE "returned"]
  /\ emitting' = SubSeq(emitting, 1, Len(emitting) - 1)
  /\ UNCHANGED <<invoked, logVars, requestVars>>
  /\ UNCHANGED <<mainVars, tripVars>>

\* SpecEmit: the module registers callbacks and emits; the callbacks return
\* or throw
NextEmit ==
  \/ PluginOn
  \/ LoadOk
  \/ EmitStart(EmitData)
  \/ EmitStep(Behaviours)
  \/ EmitEnd

SpecEmit == Init /\ [][NextEmit]_vars

\* SpecEmitMutation: the callbacks may also register, remove and emit
NextEmitMutation ==
  \/ PluginOn
  \/ LoadOk
  \/ EmitStart(EmitData)
  \/ EmitStep(Behaviours \cup MutatingBehaviours)
  \/ EmitEnd

SpecEmitMutation == Init /\ [][NextEmitMutation]_vars

(***************************************************************************)
(* logToFile (lines 9-24): fs.appendFile(logFilePath, logMessage, callback) *)
(* and its callback. Every log function (lines 26-29) is logToFile.         *)
(***************************************************************************)
\* how the append ends: without error, or with the code of the error
AppendErrors == {"none", "ENOENT", "EACCES"}

LogErrorLine(err) == [log |-> err]
LogErrorLines == {i \in 1..Len(stderr) : "log" \in DOMAIN stderr[i]}

\* variant of appendFileCallback: the failure is reported with console.log
appendFileCallbackConsoleLog(err) ==
  IF err # "none" /\ err # "ENOENT"
    THEN [stdout |-> <<[site |-> "log", msg |-> 0, doc |-> LogErrorLine(err), end |-> <<NL>>]>>,
          stderr |-> <<>>]
    ELSE [stdout |-> <<>>, stderr |-> <<>>]

\* (err) => { if (err && err.code !== 'ENOENT') console.error(...) }: what the
\* callback writes, and where
appendFileCallback(err) ==
  IF err # "none" /\ err # "ENOENT"
    THEN [stdout |-> <<>>, stderr |-> <<LogErrorLine(err)>>]
    ELSE [stdout |-> <<>>, stderr |-> <<>>]

\* some code of the runner or of the module's callbacks calls a log function:
\* the append is started and logToFile returns
LogToFile ==
  /\ phase \in {"loading", "serving"}
  /\ appending + Cardinality(LogErrorLines) < MaxLogs
  /\ appending' = appending + 1
  /\ UNCHANGED <<stderr, emitVars, requestVars>>
  /\ UNCHANGED <<mainVars, tripVars>>

\* an append ends and its callback runs, between two runs of JavaScript code
AppendFileDone(errors) ==
  /\ phase = "serving"
  /\ pc = "idle"
  /\ emitting = <<>>
  /\ appending > 0
  /\ appending' = appending - 1
  /\ \E err \in errors :
       /\ stdout' = stdout \o appendFileCallback(err).stdout
       /\ stderr' = stderr \o appendFileCallback(err).stderr
  /\ UNCHANGED <<phase, events, pipe, written, buffer, messageCount, pc, runs,
                 received, calls, yielded, sends>>
  /\ UNCHANGED <<emitVars, requestVars, tripVars>>

\* SpecLog: one request line served by a handler that may defer, while log
\* functions are called and the appends end in every way
NextLog ==
  \/ PluginOn
  \/ LoadOk
  \/ LoadFail(StreamReasons)
  \/ PeerWrite(StreamTexts, RequestLines)
  \/ StdinData
  \/ LoopExit
  \/ SkipBlank
  \/ HandlerReturns(StreamValues)
  \/ HandlerDefers
  \/ Fulfil(StreamValues)
  \/ LogToFile
  \/ AppendFileDone(AppendErrors)

SpecLog == Init /\ [][NextLog]_vars

\* SpecDescriptor: one request for one of the six operations, with the
\* members of params present or absent, served by a handler that returns
NextDescriptor ==
  \/ PluginOn
  \/ LoadOk
  \/ PeerWrite(DescriptorTexts, RequestLines)
  \/ StdinData
  \/ LoopExit
  \/ RequestError
  \/ HandlerReturns(StreamValues)

SpecDescriptor == Init /\ [][NextDescriptor]_vars

(***************************************************************************)
(* request(url, options, callback) (lines 61-146) and the events of the    *)
(* http.ClientRequest it creates.                                          *)
(***************************************************************************)
\* options.timeout: absent, a duration, 0 (for which req.setTimeout arms no
\* timer) and null (which req.setTimeout rejects with a TypeError)
TimeoutOptions ==
  {Undefined, [t |-> "number", v |-> <<"1000">>], [t |-> "number", v |-> <<"0">>], Null}

\* const { method = 'GET', timeout = 5000 } = options || {}
TimeoutOf(option) == Default(option, [t |-> "number", v |-> <<"5000">>])

\* what the target sends back, when it answers
Bodies == {"json", "text"}
SocketErrors == {[t |-> "error", v |-> <<"connect ECONNREFUSED">>]}

\* req.setTimeout(timeout, ...): a duration of 0 arms no timer
TimerOf(timeout) == IF timeout.v = <<"0">> THEN "off" ELSE "armed"

\* new Error(`Request timeout after ${timeout}ms`)
TimeoutError(timeout) ==
  [t |-> "error", v |-> <<"Request timeout after ">> \o timeout.v \o <<"ms">>]
\* the error of the 'error' event a destroyed request emits
HangUpError == [t |-> "error", v |-> <<"socket hang up">>]

\* callback(error, response), when a callback was passed
Deliver(n, err, res) ==
  IF req[n].callback
    THEN Append(delivered, [req |-> n, err |-> err, res |-> res])
    ELSE delivered

\* the module calls request; silent says that the target will never answer
\* nor fail the connection
RequestCall(options) ==
  /\ phase \in {"loading", "serving"}
  /\ Len(req) < MaxRequests
  /\ \E option \in options, cb \in BOOLEAN, silent \in BOOLEAN :
       req' = Append(req,
                     IF TimeoutOf(option).t = "number"
                       THEN [st |-> "inflight", timeout |-> TimeoutOf(option),
                             timer |-> TimerOf(TimeoutOf(option)),
                             callback |-> cb, silent |-> silent]
                       ELSE [st |-> "threw", timeout |-> TimeoutOf(option),
                             timer |-> "off", callback |-> cb, silent |-> silent])
  /\ UNCHANGED <<delivered, emitVars, logVars>>
  /\ UNCHANGED <<mainVars, tripVars>>

\* res.on('end', ...) (lines 100-117)
ResponseEnd(bodies) ==
  /\ phase = "serving"
  /\ \E n \in 1..Len(req), body \in bodies :
       /\ req[n].st = "inflight"
       /\ ~req[n].silent
       /\ req' = [req EXCEPT ![n].st = "responded", ![n].timer = "off"]
       /\ delivered' = IF body = "json"
                         THEN Deliver(n, Null, [t |-> "object", v |-> <<"body">>])
                         ELSE Deliver(n, [t |-> "error", v |-> <<"Invalid JSON response: ", body>>], Null)
  /\ UNCHANGED <<emitVars, logVars>>
  /\ UNCHANGED <<mainVars, tripVars>>

\* req.on('error', ...) (lines 120-128) for a failure of the connection
RequestFails(errors) ==
  /\ phase = "serving"
  /\ \E n \in 1..Len(req), error \in errors :
       /\ req[n].st = "inflight"
       /\ ~req[n].silent
       /\ req' = [req EXCEPT ![n].st = "failed", ![n].timer = "off"]
       /\ delivered' = Deliver(n, error, Null)
  /\ UNCHANGED <<emitVars, logVars>>
  /\ UNCHANGED <<mainVars, tripVars>>

\* the callback of req.setTimeout (lines 131-138): req.destroy(), then the
\* callback of request with the timeout error
TimeoutFires ==
  /\ phase = "serving"
  /\ \E n \in 1..Len(req) :
       /\ req[n].st = "inflight"
       /\ req[n].timer = "armed"
       /\ req' = [req EXCEPT ![n].st = "destroyed", ![n].timer = "off"]
       /\ delivered' = Deliver(n, TimeoutError(req[n].timeout), Null)
  /\ UNCHANGED <<emitVars, logVars>>
  /\ UNCHANGED <<mainVars, tripVars>>

\* a request destroyed before its response emits 'error' (socket hang up),
\* which the listener of lines 120-128 passes to the callback too
HangUp ==
  /\ phase = "serving"
  /\ \E n \in 1..Len(req) :
       /\ req[n].st = "destroyed"
       /\ req' = [req EXCEPT ![n].st = "closed"]
       /\ delivered' = Deliver(n, HangUpError, Null)
  /\ UNCHANGED <<emitVars, logVars>>
  /\ UNCHANGED <<mainVars, tripVars>>

\* SpecFetch: the module calls request with every timeout option, towards
\* targets that answer, fail or stay silent. The events of a request are
\* delivered once the synchronous load is over; the load ends, timers that
\* are armed fire and a destroyed request emits its error
NextFetch ==
  \/ LoadOk
  \/ RequestCall(TimeoutOptions)
  \/ ResponseEnd(Bodies)
  \/ RequestFails(SocketErrors)
  \/ TimeoutFires
  \/ HangUp

SpecFetch ==
  /\ Init
  /\ [][NextFetch]_vars
  /\ WF_vars(LoadOk)
  /\ WF_vars(TimeoutFires)
  /\ WF_vars(HangUp)

(***************************************************************************)
(* The event round-trip variant (src/unnamed/part_000): search and         *)
(* getMediaSource register a listener that removes itself, write the       *)
(* request notification and wait for the module to emit the result.        *)
(***************************************************************************)
\* the options argument of getMediaSource
TripOptions == {Undefined, Null}

\* the promise of a call; the call's number names its listener
Trip(event, st, val) == [event |-> event, st |-> st, val |-> val]

\* resolve(result): settles a pending promise, leaves a settled one alone
resolve(promise, result) ==
  IF promise.st = "pending" THEN Trip(promise.event, "resolved", result) ELSE promise

\* searchHandler / mediaSourceHandler: the listener h removes itself from the
\* live list if it is in it, then resolves its promise
oneShot(state, h, result) ==
  [list |-> IF \E i \in 1..Len(state.list) : state.list[i] = h
            THEN splice(state.list, indexOf(state.list, h))
            ELSE state.list,
   trips |-> [state.trips EXCEPT ![h] = resolve(@, result)]]

\* events[event].forEach(callback => callback(data)) over the live list, from
\* index k: the length is read once, an index the list no longer has is
\* skipped
RECURSIVE forEach(_, _, _, _)
forEach(state, k, len, data) ==
  IF k > len THEN state
  ELSE IF k > Len(state.list) THEN forEach(state, k + 1, len, data)
  ELSE forEach(oneShot(state, state.list[k], data), k + 1, len, data)

\* send(EVENT_NAMES.REQUEST, {action, ...}) in the main thread
Notification(action) == [event |-> REQUEST, action |-> action]

\* runner.search(...), called by a run of the data callback; runs of several
\* data events overlap, so calls do
TripSearch ==
  /\ Len(trips) < MaxTrips
  /\ registry' = [registry EXCEPT ![SEARCH] = Append(@, Len(trips) + 1)]
  /\ trips' = Append(trips, Trip(SEARCH, "pending", Undefined))
  /\ posted' = Append(posted, Notification("search"))
  /\ UNCHANGED tripEmits
  /\ UNCHANGED <<mainVars, emitVars, logVars, requestVars>>

\* runner.getMediaSource(musicItem, source, options): options.quality is read
\* after the listener is registered, and the catch rejects
TripGetMediaSource(optionsValues) ==
  /\ Len(trips) < MaxTrips
  /\ \E options \in optionsValues :
       /\ registry' = [registry EXCEPT ![GET_MEDIA_SOURCE] = Append(@, Len(trips) + 1)]
       /\ IF IsNullish(Default(options, EmptyObject))
          THEN /\ trips' = Append(trips, Trip(GET_MEDIA_SOURCE, "rejected",
                                              CannotRead(options, "quality")))
               /\ posted' = posted
          ELSE /\ trips' = Append(trips, Trip(GET_MEDIA_SOURCE, "pending", Undefined))
               /\ posted' = Append(posted, Notification("musicUrl"))
  /\ UNCHANGED tripEmits
  /\ UNCHANGED <<mainVars, emitVars, logVars, requestVars>>

\* the module calls lx.emit(event, data)
TripEmit(data) ==
  /\ Len(tripEmits) < MaxTripEmits
  /\ \E event \in TripEvents, d \in data :
       LET after == forEach([list |-> registry[event], trips |-> trips],
                            1, Len(registry[event]), d)
       IN /\ registry' = [registry EXCEPT ![event] = after.list]
          /\ trips' = after.trips
          /\ tripEmits' = Append(tripEmits, [event |-> event, data |-> d, calls |-> Len(trips)])
  /\ UNCHANGED posted
  /\ UNCHANGED <<mainVars, emitVars, logVars, requestVars>>

\* SpecRoundTrip: the host makes calls while the module emits results
NextRoundTrip ==
  \/ TripSearch
  \/ TripGetMediaSource(TripOptions)
  \/ TripEmit(EmitData)

SpecRoundTrip == Init /\ [][NextRoundTrip]_vars

TypeOK ==
  /\ phase \in {"loading", "serving", "exited", "crashed"}
  /\ pc \in {"idle", "loop"}
  /\ messageCount = Len(received)
  /\ Len(sends) <= MaxSends
  /\ \A i \in 1..Len(sends) : sends[i].event \in SendEvents /\ sends[i].data \in SendData

(***************************************************************************)
(* Properties.                                                             *)
(***************************************************************************)
Indices == 1..Len(stdout)
IsResponse(i) == stdout[i].site = "response"
\* the responses written for message number n
ResponsesTo(n) == {i \in Indices : IsResponse(i) /\ stdout[i].msg = n}
\* member k of a document is present and not null
NonNull(doc, k) == k \in DOMAIN doc /\ doc[k] # Null
\* member k of a document is null, or absent
NullOrAbsent(doc, k) == ~NonNull(doc, k)
HasNullId(doc) == "id" \in DOMAIN doc /\ doc["id"] = Null
Pending == {run \in runs : run.st = "pending"}

\* C1 as stated: a response to a line that parsed to a message with a number
\* or string id X carries id X, and the only documents on stdout with id null
\* are the readiness notification and responses to unparsable lines.
C1_IdEchoOnlyNullForInitAndParse ==
  /\ \A i \in Indices :
       (IsResponse(i) /\ received[stdout[i].msg].parsed
          /\ received[stdout[i].msg].id.t \in {"number", "string"})
         => ("id" \in DOMAIN stdout[i].doc /\ stdout[i].doc["id"] = received[stdout[i].msg].id)
  /\ \A i \in Indices :
       HasNullId(stdout[i].doc)
         => \/ stdout[i].site = "init"
            \/ IsResponse(i) /\ ~received[stdout[i].msg].parsed

\* C1 amended: a response to a line that parsed to a message with a number or
\* string id X carries id X; a document with id null is the readiness
\* notification, the line written when the load fails, a response to an
\* unparsable line, or a response to a message whose own id is null.
C1_IdEcho ==
  /\ \A i \in Indices :
       (IsResponse(i) /\ received[stdout[i].msg].parsed
          /\ received[stdout[i].msg].id.t \in {"number", "string"})
         => ("id" \in DOMAIN stdout[i].doc /\ stdout[i].doc["id"] = received[stdout[i].msg].id)
  /\ \A i \in Indices :
       HasNullId(stdout[i].doc)
         => \/ stdout[i].site \in {"init", "loadfail"}
            \/ IsResponse(i) /\ ~received[stdout[i].msg].parsed
            \/ IsResponse(i) /\ received[stdout[i].msg].id = Null

\* a request with a string id was answered after its handler's promise was
\* rejected, and a request with id null was answered
C1_Witness ==
  /\ \E i \in Indices, k \in 1..Len(yielded) :
       /\ IsResponse(i) /\ yielded[k].msg = stdout[i].msg /\ yielded[k].how = "reject"
       /\ received[stdout[i].msg].id = Str(<<"a">>)
       /\ stdout[i].doc["id"] = Str(<<"a">>)
  /\ \E i \in Indices : stdout[i].site = "init"

\* C2: every response to an inbound request has exactly one of result and
\* error non-null, whatever the handler returned, threw or settled to.
C2_ExactlyOneOfResultError ==
  \A i \in Indices :
    IsResponse(i) => (NonNull(stdout[i].doc, "result") # NonNull(stdout[i].doc, "error"))

\* C3: every line that could not be parsed has exactly one response, which is
\* {id: null, result: null, error: <a string>}.
C3_ParseFailureAnswered ==
  \A n \in 1..Len(received) :
    ~received[n].parsed =>
      /\ Cardinality(ResponsesTo(n)) = 1
      /\ \A i \in ResponsesTo(n) :
           /\ DOMAIN stdout[i].doc = {"id", "result", "error"}
           /\ stdout[i].doc["id"] = Null
           /\ stdout[i].doc["result"] = Null
           /\ stdout[i].doc["error"].t = "string"

\* C4: responses are written in the order in which their lines arrived, and
\* while a handler's result is pending no response to a later line is written.
C4_ArrivalOrder ==
  /\ \A i, j \in Indices :
       (IsResponse(i) /\ IsResponse(j) /\ i < j) => stdout[i].msg < stdout[j].msg
  /\ \A run \in Pending : \A i \in Indices : IsResponse(i) => stdout[i].msg < run.msg

\* C5: at most one call of the request handler is outstanding at any moment.
C5_AtMostOneOutstanding == Cardinality(Pending) <= 1

\* C6: after a successful load the readiness notification is on stdout exactly
\* once, before any line is processed and before every response; before the
\* load has succeeded and after a failed load it is not on stdout, and no line
\* has been processed.
IsReadiness(i) == stdout[i].doc = JSONstringify(initResponse)
C6_ReadinessOnceFirst ==
  LET ready == {i \in Indices : IsReadiness(i)} IN
  /\ phase \in {"loading", "exited"} =>
       ready = {} /\ messageCount = 0 /\ \A i \in Indices : ~IsResponse(i)
  /\ phase \in {"serving", "crashed"} =>
       /\ Cardinality(ready) = 1
       /\ \A i \in Indices : IsResponse(i) => \A r \in ready : r < i

\* the module sent 'inited' while it was loading, the load succeeded and a
\* request was answered
C6_Witness ==
  /\ phase = "serving"
  /\ \E i, j, k \in Indices :
       i < j /\ j < k /\ stdout[i].site = "send" /\ IsReadiness(j) /\ IsResponse(k)

\* C7: after a successful load the process never dies, and once every chunk
\* has been delivered, no run of the data callback is executing and every
\* handler result has settled, every non-blank line received has exactly one
\* response and no complete line is left in the buffer.
C7_EveryLineAnswered ==
  /\ phase # "crashed"
  /\ (phase = "serving" /\ pc = "idle" /\ pipe = <<>> /\ Pending = {}) =>
       /\ ~HasLine
       /\ \A n \in 1..messageCount : Cardinality(ResponsesTo(n)) = 1

\* C8: when the handler yields v, returned or as the fulfilment of its
\* promise, the request has exactly one response and it is
\* {id, result: v, error: null}.
C8_ValueBothStyles ==
  \A k \in 1..Len(yielded) :
    yielded[k].how \in {"return", "fulfil"} =>
      /\ Cardinality(ResponsesTo(yielded[k].msg)) = 1
      /\ \A i \in ResponsesTo(yielded[k].msg) :
           stdout[i].doc
             = JSONstringify(Response(received[yielded[k].msg].id, yielded[k].val, Null))

\* the text an error response is to carry for reason r
CarriesReason(doc, r) ==
  /\ "error" \in DOMAIN doc
  /\ CASE r.t \in ErrorClasses -> doc["error"] = Str(r.v)
       [] r.t = "string" -> doc["error"] = r
       [] OTHER -> doc["error"].t = "string"

\* C9: when the handler throws r or its promise is rejected with r, the
\* request has exactly one response, with the echoed id, no result and the
\* message of r as its error, and the process is alive.
C9_FailureReason ==
  \A k \in 1..Len(yielded) :
    yielded[k].how \in {"throw", "reject"} =>
      /\ phase # "crashed"
      /\ Cardinality(ResponsesTo(yielded[k].msg)) = 1
      /\ \A i \in ResponsesTo(yielded[k].msg) :
           /\ "id" \in DOMAIN stdout[i].doc =>
                stdout[i].doc["id"] = received[yielded[k].msg].id
           /\ NullOrAbsent(stdout[i].doc, "result")
           /\ CarriesReason(stdout[i].doc, yielded[k].val)

\* C10: a step that takes a request for one of the six operations while no
\* handler is registered for 'request' writes the response {id, error: 'No
\* request handler registered'} with the id of the request, invokes nothing,
\* leaves the process serving and the run of the callback in its loop.
NoHandlerDocument(id) ==
  JSONstringify(Response(id, Undefined, Str(<<"No request handler registered">>)))
C10_NoHandler ==
  [][(/\ LineReady
      /\ ~ParseAndDestructure(line).threw
      /\ Switch(ParseAndDestructure(line).message).call
      /\ events[REQUEST] = <<>>
      /\ messageCount' = messageCount + 1)
     => /\ stdout' = Append(stdout, [site |-> "response", msg |-> messageCount',
                                     doc |-> NoHandlerDocument(ParseAndDestructure(line).message.id),
                                     end |-> <<NL>>])
        /\ calls' = calls
        /\ runs' = runs
        /\ phase' = "serving"
        /\ pc' = "loop"]_vars

\* a request was answered with the no-handler error and the line after it was
\* answered too, with nothing invoked
C10_Witness ==
  /\ calls = <<>>
  /\ \E i, j \in Indices :
       /\ IsResponse(i) /\ IsResponse(j)
       /\ stdout[i].doc = NoHandlerDocument(Num("7"))
       /\ stdout[j].msg = stdout[i].msg + 1

\* C11: a step that takes a parsed message whose method is not one of the six
\* operations writes the response {id, result: null, error: 'Unknown method:
\* <method>'} with the id of the message, invokes no handler, and leaves the
\* process serving and the run of the callback in its loop.
C11_UnknownMethod ==
  [][(/\ LineReady
      /\ ~ParseAndDestructure(line).threw
      /\ ~IsOperation(ParseAndDestructure(line).message.method)
      /\ messageCount' = messageCount + 1)
     => /\ stdout' = Append(stdout,
                            Entry("response", messageCount',
                                  Response(ParseAndDestructure(line).message.id, Null,
                                           Str(<<"Unknown method: ">>
                                                 \o TemplateString(ParseAndDestructure(line).message.method)))))
        /\ calls' = calls
        /\ runs' = runs
        /\ phase' = "serving"
        /\ pc' = "loop"]_vars

\* a line on stdout that is the error response of a failed load
IsLoadError(i) ==
  /\ DOMAIN stdout[i].doc = {"id", "result", "error"}
  /\ stdout[i].doc["id"] = Null
  /\ stdout[i].doc["result"] = Null
  /\ stdout[i].doc["error"].t = "string"

\* a line on stdout written by the module's send('inited', data)
IsInitedEvent(i) ==
  /\ DOMAIN stdout[i].doc = {"event", "data"}
  /\ stdout[i].doc["event"] = Str(<<"inited">>)

\* C12 as stated: when the load has failed the process has exited (with
\* process.exit(1)) and stdout holds exactly one line, the error response,
\* whatever the module did before it failed; no inbound line was processed.
C12_OneLineOnLoadFailure ==
  phase = "exited"
    => /\ Len(stdout) = 1
       /\ IsLoadError(1)
       /\ messageCount = 0 /\ buffer = <<>> /\ received = <<>> /\ calls = <<>> /\ runs = {}

\* C12: when the load has failed the process has exited (with process.exit(1));
\* the last line of stdout is the one error response (id null, result null, a
\* non-null error), every line before it was written by a send('inited') of the
\* module before it failed, no line is the readiness signal and no inbound line
\* was processed.
C12_LoadFailure ==
  phase = "exited"
    => /\ Len(stdout) >= 1
       /\ IsLoadError(Len(stdout))
       /\ \A i \in 1..(Len(stdout) - 1) : IsInitedEvent(i)
       /\ \A i \in Indices : ~IsReadiness(i)
       /\ messageCount = 0 /\ buffer = <<>> /\ received = <<>> /\ calls = <<>> /\ runs = {}

\* the module registered a handler and called send('inited'), the peer wrote a
\* line, then the load failed
C12_Witness ==
  /\ phase = "exited"
  /\ Len(stdout) = 2
  /\ IsInitedEvent(1)
  /\ IsLoadError(2)
  /\ events[REQUEST] # <<>>
  /\ pipe # <<>>

\* C13: every line on stdout is one JSON object with exactly the three members
\* id, result and error: no other shape, and no member missing.
C13_ThreeMembers ==
  \A i \in Indices : DOMAIN stdout[i].doc = {"id", "result", "error"}

\* C14: a call of send(event, data) by the module appends one line to stdout,
\* the document {event, data}, when event is 'inited'; for every other event
\* it leaves stdout as it is; in both cases nothing else of the protocol state
\* changes (buffer, counters, pending runs, registry, phase).
C14_SendOnlyInited ==
  [][sends' # sends
     => /\ sends' = Append(sends, sends'[Len(sends')])
        /\ IF sends'[Len(sends')].event = "inited"
             THEN stdout' = Append(stdout,
                                   Entry("send", 0,
                                         EventDocument(Str(<<"inited">>),
                                                       sends'[Len(sends')].data)))
             ELSE stdout' = stdout
        /\ UNCHANGED <<phase, events, pipe, written, buffer, messageCount, pc,
                       runs, received, calls, yielded>>]_vars

\* the module sent an event other than 'inited' while a request was pending,
\* and stdout holds no line of a send
C14_Witness ==
  /\ \E i \in 1..Len(sends) : sends[i].event # "inited"
  /\ phase = "serving"
  /\ runs # {}
  /\ \A i \in Indices : stdout[i].site # "send"

\* the module sent 'inited' while serving, and stdout holds its line
C14_WitnessInited ==
  /\ \E i \in 1..Len(sends) : sends[i].event = "inited"
  /\ \E i \in Indices : i > 1 /\ IsInitedEvent(i)

\* the callbacks an emission has called so far, in order
CallsOf(em) == SelectSeq(invoked, LAMBDA x : x.em = em)

\* C15: an emission calls the callbacks registered for the event one after
\* the other in registration order, each with the data of the emission; when
\* emit has returned it has called each of them exactly once, whether or not
\* some of them threw, and emit itself returned normally; with no callback
\* registered it has called nothing.
C15_EmitAll ==
  \A em \in 1..Len(emitted) :
    /\ Len(CallsOf(em)) <= Len(emitted[em].start)
    /\ \A i \in 1..Len(CallsOf(em)) :
         CallsOf(em)[i] = [em |-> em, callback |-> emitted[em].start[i],
                           data |-> emitted[em].data]
    /\ emitted[em].done # "no"
         => /\ emitted[em].done = "returned"
            /\ Len(CallsOf(em)) = Len(emitted[em].start)

\* an emission with two callbacks has returned, the first callback threw and
\* the second was called after it
C15_Witness ==
  \E em \in 1..Len(emitted) :
    /\ emitted[em].done = "returned"
    /\ Len(emitted[em].start) = 2
    /\ \E i \in 1..Len(stderr) :
         stderr[i] = [em |-> em, callback |-> emitted[em].start[1]]
    /\ Len(CallsOf(em)) = 2

\* C16: an emission that has returned has called every callback that was
\* registered when it started exactly once, in registration order, and no
\* other callback, whatever the callbacks did to the registry meanwhile.
C16_Snapshot ==
  \A em \in 1..Len(emitted) :
    emitted[em].done # "no"
      => /\ Len(CallsOf(em)) = Len(emitted[em].start)
         /\ \A i \in 1..Len(emitted[em].start) :
              CallsOf(em)[i].callback = emitted[em].start[i]

\* what stdout holds: the text of the writes one after the other, a document
\* counting as one piece (JSON.stringify escapes the newlines of strings)
RECURSIVE Wire(_)
Wire(writes) ==
  IF writes = <<>>
    THEN <<>>
    ELSE <<writes[1].doc>> \o writes[1].end \o Wire(Tail(writes))

\* C17: stdout is a sequence of lines, each one complete document followed by
\* exactly one newline: every write appends a whole document and its newline,
\* so no two documents share a line and none is cut, in whatever order the
\* suspended handlers complete.
C17_WholeLines ==
  /\ Len(Wire(stdout)) = 2 * Len(stdout)
  /\ \A j \in 1..Len(stdout) :
       /\ Wire(stdout)[2 * j - 1] = stdout[j].doc
       /\ Wire(stdout)[2 * j] = NL

\* two handlers were suspended at the same time and the later request was
\* answered first
C17_Witness ==
  \E i, j \in Indices :
    /\ i < j
    /\ IsResponse(i) /\ IsResponse(j)
    /\ stdout[i].msg > stdout[j].msg
    /\ \E k, l \in 1..Len(yielded) :
         /\ yielded[k].msg = stdout[i].msg /\ yielded[k].how \in {"fulfil", "reject"}
         /\ yielded[l].msg = stdout[j].msg /\ yielded[l].how \in {"fulfil", "reject"}

\* C18: a step of logToFile (the call that starts the append, or the end of
\* the append and its callback, whatever the error) leaves stdout, the input
\* buffer, the registry, the pending requests and the position of the caller
\* as they are: nothing is written to stdout and no exception reaches the
\* caller.
C18_LogLeavesProtocolAlone ==
  [][(appending' # appending)
     => UNCHANGED <<stdout, buffer, events, runs, phase, pc, pipe, messageCount,
                    received, calls, yielded, sends>>]_vars

\* an append failed with an error other than ENOENT while a request was
\* pending and a line was on stdout
C18_Witness ==
  /\ \E i \in 1..Len(stderr) : stderr[i] = LogErrorLine("EACCES")
  /\ runs # {}
  /\ stdout # <<>>

\* a member the params document has
Present(o, k) == "members" \in DOMAIN o /\ k \in DOMAIN o.members
ValueOr(o, k, d) == IF Present(o, k) THEN o.members[k] ELSE d

\* the info the claim gives for a method: the members of params passed
\* through, 1 and 30 for an absent page and limit, '128k' for an absent
\* options or quality
ClaimedInfo(method, params) ==
  LET page == ValueOr(params, "page", Num("1"))
      limit == ValueOr(params, "limit", Num("30"))
      quality == IF Present(params, "options")
                   THEN ValueOr(params.members["options"], "quality", Str(<<"128k">>))
                   ELSE Str(<<"128k">>)
  IN CASE method = "search" ->
            [keyword |-> ValueOr(params, "keyword", Undefined), page |-> page, limit |-> limit]
       [] method = "getMediaSource" ->
            [musicInfo |-> ValueOr(params, "musicItem", Undefined), type |-> quality]
       [] method = "getLyric" ->
            [musicInfo |-> ValueOr(params, "musicItem", Undefined)]
       [] method = "getAlbum" ->
            [albumId |-> ValueOr(params, "albumId", Undefined), page |-> page, limit |-> limit]
       [] method = "getArtist" ->
            [artistId |-> ValueOr(params, "artistId", Undefined), page |-> page, limit |-> limit]
       [] method = "getRecommend" ->
            [musicInfo |-> ValueOr(params, "musicItem", Undefined), page |-> page, limit |-> limit]

\* C19: a step that takes a request for one of the six operations, with a
\* params object and a handler registered, invokes the first handler exactly
\* once, with the action of the method, the source of params or 'all', and
\* the info of the method in which every member present in params is passed
\* through and the absent ones are replaced by 1, 30 and '128k'.
C19_Descriptor ==
  [][(/\ LineReady
      /\ ~ParseAndDestructure(line).threw
      /\ IsOperation(ParseAndDestructure(line).message.method)
      /\ ~IsNullish(ParseAndDestructure(line).message.params)
      /\ events[REQUEST] # <<>>
      /\ messageCount' = messageCount + 1)
     => LET message == ParseAndDestructure(line).message
            method == message.method.v[1]
        IN calls' = Append(calls,
                           [msg |-> messageCount',
                            handler |-> events[REQUEST][1],
                            action |-> ActionOf[method],
                            source |-> ValueOr(message.params, "source", Str(<<"all">>)),
                            info |-> ClaimedInfo(method, message.params)])]_vars

\* the callback of call n has received the timeout error
TimedOut(n) ==
  \E i \in 1..Len(delivered) :
    /\ delivered[i].req = n
    /\ delivered[i].err = TimeoutError(req[n].timeout)
    /\ delivered[i].res = Null

\* C20: a call of request, with a callback, whose target never responds does
\* not stay pending forever: whatever options.timeout was given, the call is
\* eventually aborted and its callback has received the timeout error, and
\* no response is ever delivered to it as a success.
C20_SilentTargetTimesOut ==
  \A n \in 1..MaxRequests :
    /\ (n <= Len(req) /\ req[n].silent /\ req[n].callback)
         ~> (n <= Len(req) /\ req[n].st \in {"destroyed", "closed"} /\ TimedOut(n))
    /\ [](n <= Len(req) /\ req[n].silent
            => \A i \in 1..Len(delivered) : delivered[i].req = n => delivered[i].err # Null)

\* no code is running or suspended and the peer's bytes have all been
\* delivered
Quiescent == phase = "serving" /\ pc = "idle" /\ pipe = <<>> /\ runs = {}

\* C21: the buffer changes only by a chunk of the stream appended at its end,
\* wherever the chunk was cut, or by its first newline-terminated line taken
\* off its front, that line being skipped when blank and else handed to
\* parsing once; and when nothing runs and nothing is in flight the buffer
\* holds no complete line, only the text after the last newline: no line is
\* lost, duplicated, merged or torn.
C21_Framing ==
  /\ [][buffer' # buffer
        => \/ /\ \E n \in 1..Len(pipe) :
                   /\ buffer' = buffer \o SubSeq(pipe, 1, n)
                   /\ pipe' = SubSeq(pipe, n + 1, Len(pipe))
              /\ messageCount' = messageCount
              /\ received' = received
           \/ /\ HasLine
              /\ buffer' = rest
              /\ pipe' = pipe
              /\ IF IsBlank(line)
                   THEN messageCount' = messageCount /\ received' = received
                   ELSE /\ messageCount' = messageCount + 1
                        /\ received' = Append(received,
                                              [parsed |-> ~ParseAndDestructure(line).threw,
                                               id |-> ParseAndDestructure(line).message.id])]_vars
  /\ [](Quiescent => ~HasLine)

\* what handleExternalRequest settles its promise to once the log statements
\* (lines 187, 209-210, 215, 221, 226) are removed: the handler's own outcome
OutcomeWithoutLog(how, val) ==
  IF how \in {"return", "fulfil"}
    THEN Settled("resolved", val, FALSE)
    ELSE Settled("rejected", val, FALSE)

\* C22: the response to a request is the one the run would write with the log
\* statements removed: for every value the handler returns or fulfils its
\* promise with (no value included), and for every reason with a message
\* that it throws or rejects with, the request has exactly one response, built
\* from the handler's own outcome.
C22_SameAsWithoutLog ==
  \A k \in 1..Len(yielded) :
    (yielded[k].how \in {"return", "fulfil"} \/ ~IsNullish(yielded[k].val))
      => /\ Cardinality(ResponsesTo(yielded[k].msg)) = 1
         /\ \A i \in ResponsesTo(yielded[k].msg) :
              stdout[i].doc
                = JSONstringify(ResponseOf(received[yielded[k].msg].id,
                                           OutcomeWithoutLog(yielded[k].how, yielded[k].val)))

\* C23: a step that dispatches a request while two or more handlers are
\* registered invokes the first-registered handler, once, and no other; and
\* the response to every request is the outcome of the handler invoked for
\* it: {id, result: v, error: null} for the value v it returned or fulfilled,
\* an error response carrying the reason it threw or rejected with.
C23_FirstHandlerOnly ==
  /\ [][(/\ LineReady
         /\ ~ParseAndDestructure(line).threw
         /\ Switch(ParseAndDestructure(line).message).call
         /\ Len(events[REQUEST]) >= 2
         /\ messageCount' = messageCount + 1)
        => /\ Len(calls') = Len(calls) + 1
           /\ SubSeq(calls', 1, Len(calls)) = calls
           /\ calls'[Len(calls')].msg = messageCount'
           /\ calls'[Len(calls')].handler = events[REQUEST][1]
           /\ events' = events]_vars
  /\ [](\A k \in 1..Len(yielded) :
          /\ Cardinality({c \in 1..Len(calls) : calls[c].msg = yielded[k].msg}) = 1
          /\ Cardinality(ResponsesTo(yielded[k].msg)) = 1
          /\ \A i \in ResponsesTo(yielded[k].msg) :
               IF yielded[k].how \in {"return", "fulfil"}
                 THEN stdout[i].doc
                        = JSONstringify(Response(received[yielded[k].msg].id, yielded[k].val, Null))
                 ELSE /\ NullOrAbsent(stdout[i].doc, "result")
                      /\ CarriesReason(stdout[i].doc, yielded[k].val))

\* C24: the registry changes only by an on call of the module, which appends
\* one callback and is no step of serving a line; so the handler list is at
\* all times the list of the module's registrations in their order, whatever
\* lines were served, failed, malformed or are still pending.
C24_RegistryOnlyByOn ==
  /\ [][events' # events
        => /\ events' = on(REQUEST, NewCallback)
           /\ UNCHANGED <<buffer, messageCount, received, calls, yielded, runs,
                          stdout, pc, phase>>]_vars
  /\ [](/\ Len(events[REQUEST]) <= MaxHandlers
        /\ \A i \in 1..Len(events[REQUEST]) : events[REQUEST][i] = i)

\* two lines were taken, one was answered and one is still pending, a third
\* line was malformed or not, and the registry holds the one handler the
\* module registered
C24_Witness ==
  /\ events[REQUEST] = <<1>>
  /\ messageCount = 2
  /\ \E i \in Indices : IsResponse(i)
  /\ Pending # {}

\* the invocations of the callback of call n
DeliveriesOf(n) == {i \in 1..Len(delivered) : delivered[i].req = n}

\* C25: the callback of a call of request is never invoked twice, and when
\* the call is over (answered, failed, or timed out and closed) it has been
\* invoked exactly once, with the body or with one error; in particular
\* nothing follows the timeout error.
C25_CallbackOnce ==
  \A n \in 1..Len(req) :
    req[n].callback
      => /\ Cardinality(DeliveriesOf(n)) <= 1
         /\ req[n].st \in {"responded", "failed", "destroyed", "closed"}
              => Cardinality(DeliveriesOf(n)) = 1
         /\ \A i \in DeliveriesOf(n) :
              (delivered[i].err = Null) # (delivered[i].res = Null)

\* the calls whose promise is pending on an event
PendingOn(event) == {h \in 1..Len(trips) : trips[h].event = event /\ trips[h].st = "pending"}
\* the event of call h was emitted after the call was made
EmittedFor(h) ==
  \E i \in 1..Len(tripEmits) : tripEmits[i].event = trips[h].event /\ tripEmits[i].calls >= h
ListenersOf(event) == {registry[event][i] : i \in 1..Len(registry[event])}

\* C26, registration: a call of search or getMediaSource adds one listener,
\* its own, to the list of its operation's event and to no other list.
C26_RegistersOne ==
  [][Len(trips') = Len(trips) + 1
       => LET h == Len(trips')
          IN /\ registry'[trips'[h].event] = Append(registry[trips'[h].event], h)
             /\ \A e \in TripEvents \ {trips'[h].event} : registry'[e] = registry[e]]_vars

\* C26, emission: when the event is emitted, every call pending on it at that
\* moment has resolved with the emitted data, and no listener for the event
\* remains.
C26_EmissionResolvesAll ==
  [][Len(tripEmits') = Len(tripEmits) + 1
       => LET e == tripEmits'[Len(tripEmits')]
          IN /\ \A h \in PendingOn(e.event) : trips'[h] = Trip(e.event, "resolved", e.data)
             /\ registry'[e.event] = <<>>]_vars

\* C26, no emission: a call whose event has not been emitted since is pending
\* and its listener is registered.
C26_UnansweredStaysPending ==
  \A h \in 1..Len(trips) :
    ~EmittedFor(h) => trips[h].st = "pending" /\ h \in ListenersOf(trips[h].event)

\* C26 as stated: search and getMediaSource each register one one-shot
\* listener on their operation's event; an emission of the event resolves
\* every call pending on it with the emitted data and leaves no listener for
\* the event; a call whose event is never emitted stays pending and keeps its
\* listener.
C26_OneShotRoundTrip ==
  /\ C26_RegistersOne
  /\ C26_EmissionResolvesAll
  /\ [](C26_UnansweredStaysPending)
====
